---- MODULE Spec2Model ----
(***************************************************************************)
(* Model of main.py: a FastAPI relay between the WhatsApp Business API and *)
(* Google Gemini.  One request is served at a time (requests share no      *)
(* mutable state); the POST /webhook handler is followed from await point  *)
(* to await point, every outbound HTTP call is appended to `calls` with    *)
(* the outcome the remote side produced.                                   *)
(*                                                                         *)
(* Encoding.  A possibly-absent value (a missing dict key, None, an unset  *)
(* environment variable) is a sequence of length 0 or 1: None == <<>>,     *)
(* Some(x) == <<x>>.  Secrets are sequences of characters.  A chat text is *)
(* a sequence of fragments, so that f-string composition is \o.            *)
(***************************************************************************)
EXTENDS Integers, Sequences, FiniteSets, TLC

VARIABLES
  config,    \* the module globals read from the environment (lines 38-41)
  pc,        \* "idle", "done", or the await handle_webhook is suspended at
  request,   \* the request being served: endpoint, JSON body, query parameters
  response,  \* the HTTP status and body answered to it
  calls,     \* the outbound HTTP calls made for it, in order, with their outcome
  trace,     \* the helper coroutines handle_webhook invoked for it, in order
  locals     \* the local variables of handle_webhook

vars == <<config, pc, request, response, calls, trace, locals>>

None == <<>>
Some(x) == <<x>>

\* Python truthiness of an optional sequence value: None and "" are falsy.
Truthy(o) == o # None /\ o[1] # <<>>

Min(a, b) == IF a < b THEN a ELSE b

\* ---------------------------------------------------------------- bounds
\* Longest platform access token that is tried.
MaxTokenLen == 21

\* Number of characters of the access token shown by /debug (and logged).
PreviewLen == 20

\* ----------------------------------------------------------- environment
Token(n) == [i \in 1..n |-> ToString(i)]

TokenLens == {1, PreviewLen, MaxTokenLen}

DefaultVerifyToken == <<"m","y","s","e","c","r","e","t","t","o","k","e","n">>

OtherVerifyToken == <<"h","u","n","t","e","r">>

GeminiKey == <<"A","I","z","a">>

PhoneId == <<"1","0","5">>

\* os.getenv of the four variables; VERIFY_TOKEN has a default and is never None.
Environments ==
  [ WHATSAPP_TOKEN  : {None} \cup {Some(Token(n)) : n \in TokenLens},
    PHONE_NUMBER_ID : {None, Some(PhoneId)},
    VERIFY_TOKEN    : {DefaultVerifyToken, OtherVerifyToken},
    GEMINI_API_KEY  : {None, Some(GeminiKey)} ]

\* The list `missing` built by validate_env_vars.
MissingVars(env) ==
  (IF ~Truthy(env.WHATSAPP_TOKEN) THEN <<"WHATSAPP_TOKEN">> ELSE <<>>)
  \o (IF ~Truthy(env.PHONE_NUMBER_ID) THEN <<"PHONE_NUMBER_ID">> ELSE <<>>)

\* validate_env_vars returns (TRUE) or raises ValueError (FALSE): the module
\* is importable, and the server runs, only in the first case.
validate_env_vars(env) == MissingVars(env) = <<>>

\* ------------------------------------------------------------- chat texts
TextImageNotConfigured == <<"Image received! (Connect your AI model here to analyze it.)">>
TextImageBusy == <<"Image received! (AI is temporarily busy - please try again in a moment)">>
TextImageUnavailable(code) ==
  <<"Image received! (Analysis temporarily unavailable: ", ToString(code), ")">>
TextImageError == <<"Image received! (Analysis encountered an error)">>

TextAINotConfigured == <<"AI is not configured. Please set up GEMINI_API_KEY.">>
TextBusy == <<"I'm a bit busy right now. Please try again in a moment!">>
TextHttpError == <<"Sorry, I encountered an error. Please try again later.">>
TextError == <<"Sorry, something went wrong. Please try again.">>

TextUnsupported == <<"Sorry, I only support image messages right now.">>
TextQuestionApology == <<"Sorry, I couldn't process your question. Please try again!">>
TextImageApology(e) == <<"Sorry, I encountered an error processing your image: ", e>>

ImageHeader == <<"*Image Analysis*\n\n">>
CaptionPrefix(caption) == <<"Caption: _", caption, "_\n\n">>

\* --------------------------------------------------- outcomes of the remote side
\* Gemini generateContent: HTTP status and whether the 200 body carries
\* candidates[0].content.parts[0].text; "timeout" is any httpx transport error.
AIOutcomes == {"200_text", "200_malformed", "429", "500", "503", "timeout"}

AIStatus(o) ==
  CASE o = "429" -> 429
    [] o = "500" -> 500
    [] o = "503" -> 503
    [] o \in {"200_text", "200_malformed"} -> 200
    [] OTHER -> 0

ModelText == <<"A cat sleeping on a sofa.">>

\* GET graph.facebook.com/v18.0/{media_id}: 200 with or without "url" in the JSON.
ResolveOutcomes == {"200_url", "200_nourl", "http_error", "network_error"}

\* GET media_url.
DownloadOutcomes == {"200", "http_error", "network_error"}

\* POST .../messages: 200, another 2xx, a 4xx/5xx, or a transport error.
SendOutcomes == {"200", "201", "http_error", "network_error"}

\* ------------------------------------------------------------ request bodies
Images ==
  [ id : {None, Some("media-1")}, media_id : {None, Some("media-2")},
    caption : {None, Some(""), Some("my cat")} ]

Senders == {"4915550001", "4915550002"}

MessageTypes == {None, Some("image"), Some("text"), Some("video")}

Texts == {None, Some([body |-> None]), Some([body |-> Some("What is TLA+?")])}

\* The first element of value["messages"]; a field a message of another type
\* does not carry is absent.
Messages ==
  { m \in [ from : {None} \cup {Some(s) : s \in Senders}, type : MessageTypes,
            image : {None} \cup {Some(i) : i \in Images}, text : Texts ] :
      /\ (m.image # None => m.type = Some("image"))
      /\ (m.text # None => m.type = Some("text")) }

Value(ms) == [messages |-> ms]
Change(v) == [value |-> v]
Entry(c) == [changes |-> c]

Entries ==
  { None, Some(<<>>), Some(<<Entry(None)>>), Some(<<Entry(Some(<<>>))>>),
    Some(<<Entry(Some(<<Change(None)>>))>>) }
  \cup { Some(<<Entry(Some(<<Change(Some(Value(ms)))>>))>>) :
           ms \in {None, Some(<<>>)} \cup {Some(<<m>>) : m \in Messages} }

\* json: "invalid" is a body request.json() cannot decode, "scalar" a JSON
\* number/true/false/null, "object" a JSON object.
Bodies ==
  { [json |-> "invalid", entry |-> None], [json |-> "scalar", entry |-> None] }
  \cup { [json |-> "object", entry |-> e] : e \in Entries }

NoBody == [json |-> "none", entry |-> None]

Queries ==
  [ mode : {None, Some("subscribe"), Some("unsubscribe")},
    token : {None, Some(DefaultVerifyToken), Some(OtherVerifyToken), Some(<<>>)},
    challenge : {None, Some(<<"1","1","5","8">>), Some(<<"x">>)} ]

NoQuery == [mode |-> None, token |-> None, challenge |-> None]

NoRequest == [endpoint |-> "none", body |-> NoBody, query |-> NoQuery]

NoResponse == [status |-> 0, body |-> [none |-> TRUE]]

NoLocals ==
  [ from_number |-> "", msg_type |-> None, media_id |-> None, caption |-> "",
    text |-> "", analysis |-> <<>>, reply |-> <<>>, error |-> "" ]

\* ------------------------------------------------------------------ helpers
\* One outbound HTTP call, as the remote side saw it.
Call(api, to, text, outcome) == [api |-> api, to |-> to, text |-> text, outcome |-> outcome]

\* download_whatsapp_media, step 1: the exception class leaving the function
\* after the metadata GET ("" when it goes on to step 2).  With no "url" in
\* the metadata, media_url is None and client.get(None) raises before any
\* request is sent.
ResolveRaises(o) ==
  CASE o = "200_url" -> ""
    [] o = "200_nourl" -> "TypeError"
    [] o = "http_error" -> "HTTPStatusError"
    [] OTHER -> "ConnectError"

\* download_whatsapp_media, step 2.
DownloadRaises(o) ==
  CASE o = "200" -> ""
    [] o = "http_error" -> "HTTPStatusError"
    [] OTHER -> "ConnectError"

\* The outcomes analyze_image / answer_question can meet: without a key
\* neither posts anything.
AIOutcomesFor(key) == IF Truthy(key) THEN AIOutcomes ELSE {"not_called"}

\* The string analyze_image returns when its POST to Gemini, if it makes one,
\* ends with outcome o.
analyze_image(key, o) ==
  IF ~Truthy(key) THEN TextImageNotConfigured
  ELSE IF o = "429" THEN TextImageBusy
  ELSE IF o \in {"500", "503"} THEN TextImageUnavailable(AIStatus(o))
  ELSE IF o = "200_text" THEN ModelText
  ELSE TextImageError

\* The string answer_question returns when its POST to Gemini, if it makes
\* one, ends with outcome o.
answer_question(key, o) ==
  IF ~Truthy(key) THEN TextAINotConfigured
  ELSE IF o = "429" THEN TextBusy
  ELSE IF o \in {"500", "503"} THEN TextHttpError
  ELSE IF o = "200_text" THEN ModelText
  ELSE TextError

\* send_whatsapp_message: the exception class leaving it ("" when it returns).
\* Only status 200 skips raise_for_status, which itself lets every 2xx pass.
SendRaises(o) ==
  CASE o = "200" -> ""
    [] o = "201" -> ""
    [] o = "http_error" -> "HTTPStatusError"
    [] OTHER -> "ConnectError"

\* `if not messages` (line 289): a missing key, null and [] all count.
NoMessagesNoneOnly(messages) == messages = None

NoMessages(messages) == ~Truthy(messages)

\* The if/elif/else on msg_type (lines 300, 340, 361): the first await of
\* the branch taken.
DispatchDefaultsToText(msg_type) ==
  IF msg_type = Some("image") THEN "img_resolve" ELSE "txt_answer"

Dispatch(msg_type) ==
  CASE msg_type = Some("image") -> "img_resolve"
    [] msg_type = Some("text") -> "txt_answer"
    [] OTHER -> "unsup_send"

\* The test of verify_webhook (line 257).
VerifiedTokenOnly(q, secret) == q.token = Some(secret)

Verified(q, secret) == q.mode = Some("subscribe") /\ q.token = Some(secret)

\* How far handle_webhook gets with body b before its first await on an
\* outbound call: the exception raised, the early-return status, or "message".
ParseBody(b) ==
  IF b.json = "invalid" THEN "JSONDecodeError"
  ELSE IF b.json = "scalar" THEN "TypeError"
  ELSE IF b.entry = None THEN "ignored - no entry"
  ELSE IF Len(b.entry[1]) = 0 THEN "IndexError"
  ELSE LET entry == b.entry[1][1] IN
    IF entry.changes = None THEN "KeyError"
    ELSE IF Len(entry.changes[1]) = 0 THEN "IndexError"
    ELSE LET changes == entry.changes[1][1] IN
      IF changes.value = None THEN "KeyError"
      ELSE LET messages == changes.value[1].messages IN
        IF NoMessages(messages) THEN "no messages"
        ELSE IF messages = None THEN "TypeError"
        ELSE IF Len(messages[1]) = 0 THEN "IndexError"
        ELSE LET message == messages[1][1] IN
          IF message.from = None THEN "KeyError"
          ELSE IF message.type = Some("image") /\ message.image = None THEN "KeyError"
          ELSE IF message.type = Some("text")
                  /\ (message.text = None \/ message.text[1].body = None) THEN "KeyError"
          ELSE "message"

\* messages[0] of a body for which ParseBody is "message".
FirstMessage(b) == b.entry[1][1].changes[1][1].value[1].messages[1][1]

\* message["image"].get("id") or message["image"].get("media_id")
MediaId(image) == IF image.id # None THEN image.id ELSE image.media_id

\* message["image"].get("caption", "")
Caption(image) == IF image.caption = None THEN "" ELSE image.caption[1]

\* The reply of the image branch: header and analysis, behind the caption
\* line when the caption is non-empty.
ImageReplyCaptionLast(caption, analysis) ==
  LET reply == ImageHeader \o analysis IN
  IF caption # "" THEN reply \o CaptionPrefix(caption) ELSE reply

ImageReply(caption, analysis) ==
  LET reply == ImageHeader \o analysis IN
  IF caption # "" THEN CaptionPrefix(caption) \o reply ELSE reply

\* The dict handle_webhook returns (HTTP 200).
Ack(status) == [status |-> 200, body |-> [status |-> status]]

\* What the server answers when an exception leaves a route handler.
ServerError == [status |-> 500, body |-> [detail |-> "Internal Server Error"]]

\* The outbound calls one inference helper adds to the log.
AICalls(key, api, o) == IF Truthy(key) THEN <<Call(api, "", <<>>, o)>> ELSE <<>>

\* -------------------------------------------------------------------- state
Init ==
  /\ config \in {env \in Environments : validate_env_vars(env)}
  /\ pc = "idle"
  /\ request = NoRequest
  /\ response = NoResponse
  /\ calls = <<>>
  /\ trace = <<>>
  /\ locals = NoLocals

Finish(resp) ==
  /\ pc' = "done"
  /\ response' = resp

\* GET /webhook
verify_webhook(q) ==
  /\ pc = "idle"
  /\ request' = [endpoint |-> "GET /webhook", body |-> NoBody, query |-> q]
  /\ IF Verified(q, config.VERIFY_TOKEN)
       THEN Finish([status |-> 200,
                    body |-> [content |-> IF q.challenge = None THEN <<>> ELSE q.challenge[1]]])
       ELSE Finish([status |-> 403, body |-> [detail |-> "Verification failed"]])
  /\ UNCHANGED <<config, calls, trace, locals>>

\* GET /health
health_check ==
  /\ pc = "idle"
  /\ request' = [endpoint |-> "GET /health", body |-> NoBody, query |-> NoQuery]
  /\ Finish([status |-> 200,
             body |-> [status |-> "running",
                       phone_number_id |-> config.PHONE_NUMBER_ID,
                       gemini_connected |-> Truthy(config.GEMINI_API_KEY)]])
  /\ UNCHANGED <<config, calls, trace, locals>>

\* GET /debug
debug_config ==
  /\ pc = "idle"
  /\ request' = [endpoint |-> "GET /debug", body |-> NoBody, query |-> NoQuery]
  /\ Finish([status |-> 200,
             body |-> [whatsapp_token_set |-> Truthy(config.WHATSAPP_TOKEN),
                       whatsapp_token_preview |->
                         IF Truthy(config.WHATSAPP_TOKEN)
                           THEN Some(SubSeq(config.WHATSAPP_TOKEN[1], 1,
                                            Min(PreviewLen, Len(config.WHATSAPP_TOKEN[1])))
                                     \o <<".", ".", ".">>)
                           ELSE None,
                       phone_number_id |-> config.PHONE_NUMBER_ID,
                       verify_token |-> config.VERIFY_TOKEN,
                       gemini_key_set |-> Truthy(config.GEMINI_API_KEY)]])
  /\ UNCHANGED <<config, calls, trace, locals>>

\* POST /webhook, from the request up to the first await of an outbound call
\* (lines 271-305, 341-342, 362).
handle_webhook(b) ==
  /\ pc = "idle"
  /\ request' = [endpoint |-> "POST /webhook", body |-> b, query |-> NoQuery]
  /\ LET r == ParseBody(b) IN
     CASE r = "JSONDecodeError" ->
            Finish(ServerError) /\ locals' = [locals EXCEPT !.error = r]
       [] r \in {"ignored - no entry", "no messages"} ->
            Finish(Ack(r)) /\ UNCHANGED locals
       [] r \in {"KeyError", "IndexError", "TypeError"} ->
            Finish(Ack("ok")) /\ locals' = [locals EXCEPT !.error = r]
       [] OTHER ->
            LET message == FirstMessage(b)
                base == [NoLocals EXCEPT !.from_number = message.from[1],
                                         !.msg_type = message.type]
            IN  /\ response' = response
                /\ pc' = Dispatch(message.type)
                /\ locals' =
                     CASE message.type = Some("image") ->
                            [base EXCEPT !.media_id = MediaId(message.image[1]),
                                         !.caption = Caption(message.image[1])]
                       [] message.type = Some("text") ->
                            [base EXCEPT !.text = message.text[1].body[1]]
                       [] OTHER -> base
  /\ UNCHANGED <<config, calls, trace>>

\* One invocation of send_whatsapp_message(to, text) meeting outcome o.
Send(to, text, o) ==
  /\ calls' = Append(calls, Call("send", to, text, o))
  /\ trace' = Append(trace, "send_whatsapp_message")

\* Where the image branch goes when download_whatsapp_media raised e, or
\* went through ("").
AfterMediaIgnoresErrors(e, next) == next

AfterMedia(e, next) == IF e = "" THEN next ELSE "img_apology"

\* Where the image branch goes when sending the analysis raised e: the inner
\* handler only logs an HTTPStatusError, the outer one apologises.
AfterImageReplyAlwaysApologises(e) == IF e = "" THEN "done" ELSE "img_apology"

AfterImageReply(e) ==
  IF e = "" \/ e = "HTTPStatusError" THEN "done" ELSE "img_apology"

\* Where the text branch goes when sending the answer raised e.
AfterAnswerNoApology(e) == "done"

AfterAnswer(e) == IF e = "" THEN "done" ELSE "txt_apology"

\* download_whatsapp_media, the metadata GET (line 81-86).
MediaResolve ==
  /\ pc = "img_resolve"
  /\ \E o \in ResolveOutcomes :
       /\ calls' = Append(calls, Call("media_resolve", "", <<>>, o))
       /\ pc' = AfterMedia(ResolveRaises(o), "img_download")
       /\ locals' = [locals EXCEPT !.error = ResolveRaises(o)]
  /\ trace' = Append(trace, "download_whatsapp_media")
  /\ UNCHANGED <<config, request, response>>

\* download_whatsapp_media, the GET of the bytes (line 89-91).
MediaDownload ==
  /\ pc = "img_download"
  /\ \E o \in DownloadOutcomes :
       /\ calls' = Append(calls, Call("media_download", "", <<>>, o))
       /\ pc' = AfterMedia(DownloadRaises(o), "img_analyze")
       /\ locals' = [locals EXCEPT !.error = DownloadRaises(o)]
  /\ UNCHANGED <<config, request, response, trace>>

\* analyze_image and the composition of the reply (lines 312-317).
AnalyzeImage ==
  /\ pc = "img_analyze"
  /\ \E o \in AIOutcomesFor(config.GEMINI_API_KEY) :
       LET analysis == analyze_image(config.GEMINI_API_KEY, o) IN
       /\ calls' = calls \o AICalls(config.GEMINI_API_KEY, "gemini_vision", o)
       /\ locals' = [locals EXCEPT !.analysis = analysis,
                                   !.reply = ImageReply(locals.caption, analysis)]
  /\ trace' = Append(trace, "analyze_image")
  /\ pc' = "img_send"
  /\ UNCHANGED <<config, request, response>>

\* The image branch sends the analysis (lines 319-326).
SendImageReply ==
  /\ pc = "img_send"
  /\ \E o \in SendOutcomes :
       /\ Send(locals.from_number, locals.reply, o)
       /\ pc' = AfterImageReply(SendRaises(o))
       /\ locals' = [locals EXCEPT !.error = SendRaises(o)]
       /\ response' = IF AfterImageReply(SendRaises(o)) = "done" THEN Ack("ok") ELSE response
  /\ UNCHANGED <<config, request>>

\* The image branch reports the error to the user (lines 328-337).
SendImageApology ==
  /\ pc = "img_apology"
  /\ \E o \in SendOutcomes : Send(locals.from_number, TextImageApology(locals.error), o)
  /\ Finish(Ack("ok"))
  /\ UNCHANGED <<config, request, locals>>

\* answer_question (line 346).
AnswerQuestion ==
  /\ pc = "txt_answer"
  /\ \E o \in AIOutcomesFor(config.GEMINI_API_KEY) :
       LET answer == answer_question(config.GEMINI_API_KEY, o) IN
       /\ calls' = calls \o AICalls(config.GEMINI_API_KEY, "gemini_text", o)
       /\ locals' = [locals EXCEPT !.analysis = answer, !.reply = answer]
  /\ trace' = Append(trace, "answer_question")
  /\ pc' = "txt_send"
  /\ UNCHANGED <<config, request, response>>

\* The text branch sends the answer (lines 347-348).
SendAnswer ==
  /\ pc = "txt_send"
  /\ \E o \in SendOutcomes :
       /\ Send(locals.from_number, locals.reply, o)
       /\ pc' = AfterAnswer(SendRaises(o))
       /\ locals' = [locals EXCEPT !.error = SendRaises(o)]
       /\ response' = IF AfterAnswer(SendRaises(o)) = "done" THEN Ack("ok") ELSE response
  /\ UNCHANGED <<config, request>>

\* The text branch reports the error to the user (lines 349-358).
SendQuestionApology ==
  /\ pc = "txt_apology"
  /\ \E o \in SendOutcomes : Send(locals.from_number, TextQuestionApology, o)
  /\ Finish(Ack("ok"))
  /\ UNCHANGED <<config, request, locals>>

\* Any other message type (lines 361-366); what send_whatsapp_message raises
\* here is caught by the handler's last except clause.
SendUnsupported ==
  /\ pc = "unsup_send"
  /\ \E o \in SendOutcomes :
       /\ Send(locals.from_number, TextUnsupported, o)
       /\ locals' = [locals EXCEPT !.error = SendRaises(o)]
  /\ Finish(Ack("ok"))
  /\ UNCHANGED <<config, request>>

\* The response is out and the request's locals are dropped; the server
\* waits for the next request.
NextRequest ==
  /\ pc = "done"
  /\ pc' = "idle"
  /\ request' = NoRequest
  /\ response' = NoResponse
  /\ calls' = <<>>
  /\ trace' = <<>>
  /\ locals' = NoLocals
  /\ UNCHANGED config

Next ==
  \/ \E q \in Queries : verify_webhook(q)
  \/ health_check
  \/ debug_config
  \/ \E b \in Bodies : handle_webhook(b)
  \/ MediaResolve
  \/ MediaDownload
  \/ AnalyzeImage
  \/ SendImageReply
  \/ SendImageApology
  \/ AnswerQuestion
  \/ SendAnswer
  \/ SendQuestionApology
  \/ SendUnsupported
  \/ NextRequest

Spec == Init /\ [][Next]_vars

\* ===================================================================
\* Properties
\* ===================================================================
CallsOf(api) == SelectSeq(calls, LAMBDA c : c.api = api)

SendCalls == CallsOf("send")

Invocations(helper) == Len(SelectSeq(trace, LAMBDA h : h = helper))

Raised(c) == c.outcome \in {"http_error", "network_error"}

PostDone == request.endpoint = "POST /webhook" /\ pc = "done"

\* The body is a JSON object whose entry[0].changes[0].value.messages has a
\* first element.
HasMessage(b) ==
  /\ b.json = "object"
  /\ b.entry # None /\ b.entry[1] # <<>>
  /\ b.entry[1][1].changes # None /\ b.entry[1][1].changes[1] # <<>>
  /\ b.entry[1][1].changes[1][1].value # None
  /\ b.entry[1][1].changes[1][1].value[1].messages # None
  /\ b.entry[1][1].changes[1][1].value[1].messages[1] # <<>>

Message == request.body.entry[1][1].changes[1][1].value[1].messages[1][1]

\* The request in hand is a POST /webhook whose first message names its sender.
FromUser == request.endpoint = "POST /webhook" /\ HasMessage(request.body) /\ Message.from # None

Sender == Message.from[1]

TextMessage ==
  /\ FromUser /\ Message.type = Some("text")
  /\ Message.text # None /\ Message.text[1].body # None

ImageMessage == FromUser /\ Message.type = Some("image") /\ Message.image # None

OtherMessage == FromUser /\ Message.type \notin {Some("image"), Some("text")}

IsImageApology(text) ==
  Len(text) = 2 /\ text[1] = "Sorry, I encountered an error processing your image: "

IsQuestionApology(text) ==
  text = <<"Sorry, I couldn't process your question. Please try again!">>

IsApology(text) == IsImageApology(text) \/ IsQuestionApology(text)

\* ------------------------------------------------------------------- C1
\* C1: every POST /webhook, whatever its body and whatever the outbound
\* calls did, is answered with HTTP 200 and no exception leaves the handler.
C1_AlwaysAcknowledged ==
  PostDone => response.status = 200 /\ response.body.status \in
                {"ok", "no messages", "ignored - no entry"}

\* ------------------------------------------------------------------- C2
\* C2 as stated: a text message leads, in every execution, to exactly one
\* answer_question call and exactly one send call, to the sender, carrying
\* the returned string; the response is {"status": "ok"}.
C2_ExactlyOneSend ==
  (PostDone /\ TextMessage) =>
    /\ Invocations("answer_question") = 1
    /\ Len(SendCalls) = 1
    /\ SendCalls[1].to = Sender
    /\ SendCalls[1].text = locals.analysis
    /\ response = [status |-> 200, body |-> [status |-> "ok"]]

\* The string answer_question must have returned, read off the call log.
AnswerFromLog ==
  IF CallsOf("gemini_text") = <<>>
    THEN <<"AI is not configured. Please set up GEMINI_API_KEY.">>
    ELSE LET o == CallsOf("gemini_text")[1].outcome IN
         CASE o = "200_text" -> ModelText
           [] o = "429" -> <<"I'm a bit busy right now. Please try again in a moment!">>
           [] o \in {"500", "503"} ->
                <<"Sorry, I encountered an error. Please try again later.">>
           [] OTHER -> <<"Sorry, something went wrong. Please try again.">>

\* C2 amended: a text message (with sender and body) leads to exactly one
\* answer_question call, at most one call to Gemini, and a first send call
\* to the sender carrying the returned string; that call is the only send
\* when it returns, and is followed by exactly one more send, the fixed
\* apology to the sender, when it raises; the response is {"status": "ok"}.
C2_OneSendUnlessItFails ==
  (PostDone /\ TextMessage) =>
    /\ Invocations("answer_question") = 1
    /\ Len(CallsOf("gemini_text")) = (IF Truthy(config.GEMINI_API_KEY) THEN 1 ELSE 0)
    /\ Len(calls) = Len(CallsOf("gemini_text")) + Len(SendCalls)
    /\ Len(SendCalls) >= 1
    /\ SendCalls[1].to = Sender
    /\ SendCalls[1].text = AnswerFromLog
    /\ (~Raised(SendCalls[1]) => Len(SendCalls) = 1)
    /\ (Raised(SendCalls[1]) =>
          /\ Len(SendCalls) = 2
          /\ SendCalls[2].to = Sender
          /\ IsQuestionApology(SendCalls[2].text))
    /\ response = [status |-> 200, body |-> [status |-> "ok"]]

C2_Witness ==
  /\ PostDone /\ TextMessage
  /\ Len(SendCalls) = 2
  /\ Raised(SendCalls[1])
  /\ SendCalls[1].text = ModelText

\* ------------------------------------------------------------------- C3
\* The string analyze_image returned, read off the call log.
AnalysisFromLog ==
  IF CallsOf("gemini_vision") = <<>>
    THEN TextImageNotConfigured
    ELSE analyze_image(config.GEMINI_API_KEY, CallsOf("gemini_vision")[1].outcome)

\* Position of the first occurrence of fragment f in text (0 when absent).
IndexOf(text, f) ==
  IF \E i \in 1..Len(text) : text[i] = f
    THEN CHOOSE i \in 1..Len(text) : text[i] = f /\ \A j \in 1..(i - 1) : text[j] # f
    ELSE 0

\* text ends with the fragments of tail.
EndsWith(text, tail) ==
  Len(tail) <= Len(text) /\ SubSeq(text, Len(text) - Len(tail) + 1, Len(text)) = tail

SentCaption == IF Message.image[1].caption = None THEN "" ELSE Message.image[1].caption[1]

\* The reply carries the analysis; a non-empty caption stands before it,
\* and without one there is no caption line.
CaptionThenAnalysis(text) ==
  /\ EndsWith(text, AnalysisFromLog)
  /\ IF SentCaption # ""
       THEN /\ IndexOf(text, SentCaption) > 0
            /\ IndexOf(text, SentCaption) <= Len(text) - Len(AnalysisFromLog)
       ELSE /\ IndexOf(text, "Caption: _") = 0
            /\ Len(text) = 1 + Len(AnalysisFromLog)

\* C3 as stated: an image message leads, in every execution, to one media
\* resolution call, one media download call, one analyze_image call and one
\* send call whose text carries the analysis, behind the caption if any.
C3_AlwaysFourCalls ==
  (PostDone /\ ImageMessage) =>
    /\ Len(CallsOf("media_resolve")) = 1
    /\ Len(CallsOf("media_download")) = 1
    /\ Invocations("analyze_image") = 1
    /\ Len(SendCalls) = 1
    /\ CaptionThenAnalysis(SendCalls[1].text)

MediaFetched ==
  /\ Len(CallsOf("media_resolve")) = 1 /\ CallsOf("media_resolve")[1].outcome = "200_url"
  /\ Len(CallsOf("media_download")) = 1 /\ CallsOf("media_download")[1].outcome = "200"

\* C3 amended: an image message leads to exactly one media resolution call;
\* when that call and the download both succeed there is exactly one
\* download call, one analyze_image call (at most one call to Gemini) and a
\* first send call to the sender whose text carries the analysis, behind the
\* caption if one was sent and without a caption line otherwise; that send
\* is the only one unless it raises something other than an HTTP status
\* error, and then exactly one more send, the error report, follows.
C3_FourCallsWhenMediaFetched ==
  (PostDone /\ ImageMessage) =>
    /\ Len(CallsOf("media_resolve")) = 1
    /\ Len(CallsOf("media_download")) <= 1
    /\ MediaFetched =>
         /\ Invocations("analyze_image") = 1
         /\ Len(CallsOf("gemini_vision")) = (IF Truthy(config.GEMINI_API_KEY) THEN 1 ELSE 0)
         /\ Len(SendCalls) >= 1
         /\ SendCalls[1].to = Sender
         /\ CaptionThenAnalysis(SendCalls[1].text)
         /\ (SendCalls[1].outcome # "network_error" => Len(SendCalls) = 1)
         /\ (SendCalls[1].outcome = "network_error" =>
               /\ Len(SendCalls) = 2
               /\ SendCalls[2].to = Sender
               /\ IsImageApology(SendCalls[2].text))

C3_Witness ==
  /\ PostDone /\ ImageMessage /\ MediaFetched
  /\ SentCaption = "my cat"
  /\ Len(SendCalls) = 1
  /\ SendCalls[1].outcome = "200"
  /\ AnalysisFromLog = ModelText

\* ------------------------------------------------------------------- C4
\* C4: a message of any other type, a missing type included, leads to
\* exactly one outbound call: a send of the fixed unsupported-type text to
\* the sender; no inference helper and no media helper is called.
C4_UnsupportedOneSend ==
  (request.endpoint = "POST /webhook" /\ OtherMessage) =>
    /\ \A i \in 1..Len(calls) :
         /\ calls[i].api = "send"
         /\ calls[i].to = Sender
         /\ calls[i].text = <<"Sorry, I only support image messages right now.">>
    /\ Len(calls) = (IF pc = "done" THEN 1 ELSE 0)
    /\ \A i \in 1..Len(trace) : trace[i] = "send_whatsapp_message"
    /\ (pc = "done" => response = [status |-> 200, body |-> [status |-> "ok"]])

C4_Witness ==
  /\ PostDone /\ OtherMessage
  /\ Message.type = None
  /\ Len(SendCalls) = 1
  /\ Raised(SendCalls[1])

\* ------------------------------------------------------------------- C5
\* An outbound media or send call that failed and was not itself an apology.
FailedAt(i) ==
  /\ calls[i].api \in {"media_resolve", "media_download", "send"}
  /\ Raised(calls[i])
  /\ ~(calls[i].api = "send" /\ IsApology(calls[i].text))

ApologyAfter(i) ==
  \E j \in (i + 1)..Len(calls) :
    calls[j].api = "send" /\ calls[j].to = Sender /\ IsApology(calls[j].text)

\* C5 as stated: whenever a media download or a reply send fails, for any
\* message type and any failure, the handler attempts to send an apology,
\* and it completes normally whatever becomes of that apology.
C5_AlwaysApologises ==
  (PostDone /\ FromUser) =>
    /\ \A i \in 1..Len(calls) : FailedAt(i) => ApologyAfter(i)
    /\ response = [status |-> 200, body |-> [status |-> "ok"]]

\* C5 amended: an apology is attempted exactly when download_whatsapp_media
\* fails, when the send of the image analysis fails with something other
\* than an HTTP status error, or when the send of the text answer fails in
\* any way; a failed send of the image analysis with an HTTP error status and
\* a failed send of the unsupported-type text are only logged.  The apology
\* is the last outbound call whatever its outcome, and the handler answers
\* {"status": "ok"} in every case.
C5_ApologisesWhereCaught ==
  (PostDone /\ FromUser) =>
    /\ \A i \in 1..Len(calls) :
         FailedAt(i) =>
           IF \/ calls[i].api \in {"media_resolve", "media_download"}
              \/ (Message.type = Some("image") /\ calls[i].outcome = "network_error")
              \/ Message.type = Some("text")
             THEN /\ Len(calls) = i + 1
                  /\ calls[i + 1].api = "send"
                  /\ calls[i + 1].to = Sender
                  /\ IsApology(calls[i + 1].text)
             ELSE Len(calls) = i
    /\ \A i \in 1..Len(calls) :
         (calls[i].api = "send" /\ IsApology(calls[i].text)) =>
           /\ i = Len(calls)
           /\ i > 1 => FailedAt(i - 1) \/ calls[i - 1].outcome = "200_nourl"
    /\ response = [status |-> 200, body |-> [status |-> "ok"]]

C5_Witness ==
  /\ PostDone /\ FromUser
  /\ Len(calls) >= 2
  /\ FailedAt(Len(calls) - 1)
  /\ IsApology(calls[Len(calls)].text)
  /\ Raised(calls[Len(calls)])
  /\ response.status = 200

\* ------------------------------------------------------------------- C6
\* C6: GET /webhook answers 200 with the challenge verbatim exactly when
\* hub.mode is "subscribe" and hub.verify_token equals the configured
\* secret, and 403 for every other combination of parameters.
C6_VerifyHandshake ==
  (request.endpoint = "GET /webhook" /\ pc = "done") =>
    LET q == request.query
        match == /\ q.mode # None /\ q.mode[1] = "subscribe"
                 /\ q.token # None /\ q.token[1] = config.VERIFY_TOKEN
    IN  /\ match => /\ response.status = 200
                    /\ q.challenge # None => response.body.content = q.challenge[1]
        /\ ~match => response.status = 403
        /\ calls = <<>>

C6_Witness ==
  /\ request.endpoint = "GET /webhook" /\ pc = "done"
  /\ response.status = 200
  /\ request.query.challenge = Some(<<"1","1","5","8">>)
  /\ response.body.content = <<"1","1","5","8">>

\* ------------------------------------------------------------------- C7
\* A JSON body that does not reach a first message.
NoUserMessage ==
  /\ request.endpoint = "POST /webhook"
  /\ request.body.json \in {"scalar", "object"}
  /\ ~HasMessage(request.body)

\* The body reaches entry[0].changes[0].value, which has no messages.
ValueWithoutMessages ==
  LET b == request.body IN
  /\ b.json = "object"
  /\ b.entry # None /\ b.entry[1] # <<>>
  /\ b.entry[1][1].changes # None /\ b.entry[1][1].changes[1] # <<>>
  /\ b.entry[1][1].changes[1][1].value # None
  /\ b.entry[1][1].changes[1][1].value[1].messages \in {None, Some(<<>>)}

C7_WitnessNoMessages ==
  /\ PostDone /\ ValueWithoutMessages
  /\ response.body.status = "no messages"

\* ------------------------------------------------------------------- C8
\* The status code Gemini answered with appears in the text.
EmbedsStatus(text, o) == \E i \in 1..Len(text) : text[i] = ToString(AIStatus(o))

\* What C8 asks of the string one helper returned for the outcome o of its
\* call to Gemini.
DegradesAsClaimed(result, busy, o) ==
  /\ o = "429" => result = busy
  /\ o \in {"500", "503"} => EmbedsStatus(result, o)

\* C8: analyze_image and answer_question always return a string; without a
\* key they call nothing, on 429 they return their fixed busy string, and on
\* any other HTTP error a canned message that embeds the status code.
C8_DegradedMessages ==
  /\ pc = "img_send" =>
       /\ locals.analysis # <<>>
       /\ IF Truthy(config.GEMINI_API_KEY)
            THEN DegradesAsClaimed(locals.analysis, TextImageBusy, calls[Len(calls)].outcome)
            ELSE CallsOf("gemini_vision") = <<>>
  /\ pc = "txt_send" =>
       /\ locals.analysis # <<>>
       /\ IF Truthy(config.GEMINI_API_KEY)
            THEN DegradesAsClaimed(locals.analysis, TextBusy, calls[Len(calls)].outcome)
            ELSE CallsOf("gemini_text") = <<>>

\* ------------------------------------------------------------------- C9
\* The character sequence hay contains needle as a contiguous run.
Contains(hay, needle) ==
  \E i \in 0..(Len(hay) - Len(needle)) : SubSeq(hay, i + 1, i + Len(needle)) = needle

\* A response field shows a secret in redacted form only.
Redacted(shown, secret) == ~Contains(shown, secret) /\ Len(shown) < Len(secret)

NoSecretInFull(resp, endpoint) ==
  IF endpoint = "GET /debug"
    THEN /\ Redacted(resp.body.verify_token, config.VERIFY_TOKEN)
         /\ resp.body.whatsapp_token_preview # None =>
              Redacted(resp.body.whatsapp_token_preview[1], config.WHATSAPP_TOKEN[1])
         /\ resp.body.gemini_key_set \in BOOLEAN
    ELSE resp.body.gemini_connected \in BOOLEAN

\* C9: GET /health and GET /debug change no configuration, and their
\* responses show a secret only as a presence flag or as a preview strictly
\* shorter than the secret, never in full.
C9_NoSecretExposed ==
  [][(health_check \/ debug_config) =>
       /\ config' = config
       /\ calls' = calls
       /\ NoSecretInFull(response', request'.endpoint)]_vars

\* ------------------------------------------------------------------ C10
PositionsOf(api) == {i \in 1..Len(calls) : calls[i].api = api}

TracePosition(helper) == {i \in 1..Len(trace) : trace[i] = helper}

\* C10: in the image path the download is issued only after a successful
\* resolution, analyze_image only after a successful download, the analysis
\* is sent only after analyze_image returned; after a resolution or a
\* download answered with an error status no later stage runs and the only
\* other outbound call is the error report sent to the user.
C10_ImageStagesGated ==
  (request.endpoint = "POST /webhook" /\ HasMessage(request.body)
     /\ Message.type = Some("image")) =>
    /\ \A i \in PositionsOf("media_download") :
         i = 2 /\ calls[1].api = "media_resolve" /\ calls[1].outcome = "200_url"
    /\ \A i \in TracePosition("analyze_image") :
         /\ i = 2 /\ trace[1] = "download_whatsapp_media"
         /\ Len(calls) >= 2
         /\ calls[2].api = "media_download" /\ calls[2].outcome = "200"
    /\ \A i \in PositionsOf("gemini_vision") :
         i = 3 /\ Len(trace) >= 2 /\ trace[2] = "analyze_image"
    /\ \A i \in PositionsOf("send") :
         ~IsImageApology(calls[i].text) =>
           /\ Invocations("analyze_image") = 1
           /\ i = 3 + Len(CallsOf("gemini_vision"))
    /\ \A i \in 1..Len(calls) :
         (calls[i].api \in {"media_resolve", "media_download"} /\ calls[i].outcome = "http_error") =>
           /\ Len(calls) <= i + 1
           /\ Invocations("analyze_image") = 0
           /\ pc \in {"img_apology", "done"}
           /\ pc = "done" =>
                /\ Len(calls) = i + 1
                /\ calls[i + 1].api = "send"
                /\ calls[i + 1].to = Sender
                /\ calls[i + 1].text =
                     <<"Sorry, I encountered an error processing your image: ", "HTTPStatusError">>
                /\ response = [status |-> 200, body |-> [status |-> "ok"]]

C10_Witness ==
  /\ PostDone /\ HasMessage(request.body) /\ Message.type = Some("image")
  /\ Len(calls) = 3
  /\ calls[1].outcome = "200_url"
  /\ calls[2].api = "media_download" /\ calls[2].outcome = "http_error"
  /\ IsImageApology(calls[3].text)

C10_WitnessAllStages ==
  /\ PostDone /\ HasMessage(request.body) /\ Message.type = Some("image")
  /\ Len(calls) = 4
  /\ calls[3].api = "gemini_vision"
  /\ calls[4].api = "send" /\ calls[4].outcome = "200"

====
